---------------------------- MODULE Spec2Model ----------------------------
(***************************************************************************)
(* Model of the budget screen's expense aggregation and debt settlement    *)
(* (BudgetScreen.summary, src/unnamed/part_002 lines 163-210) and of the   *)
(* screen's handlers (fetchExpenses, handleAdd, handleDelete, the add      *)
(* sheet), split where they await the backing store.                       *)
(*                                                                         *)
(* SpecSummary and SpecPeople apply the summary to lists of expenses;      *)
(* Spec is the screen with its fetches, adds and deletes in flight;        *)
(* SpecForm is the add sheet with every input in use.                      *)
(*                                                                         *)
(* Numbers.  A JavaScript number is modelled as an integer count of units  *)
(* of 1/600 (so 0.01 is 6 units and the division by a participant count    *)
(* of 1, 2 or 3 is exact on whole cents), or one of the three special      *)
(* values NaN, PosInf, NegInf.  Binary rounding of finite sums is not      *)
(* modelled; the special values and the `x || 0` idiom are.                *)
(***************************************************************************)
EXTENDS Integers, Sequences, FiniteSets, Bags, TLC

VARIABLES
  expenses,   \* the local expense list (useState)
  summary,    \* the memoised summary (useMemo)
  pc,         \* "set": expenses set and the memo stale; "rendered": memo recomputed
  participants, \* the participant list the build is configured with (PEOPLE)
  loading,    \* useState(true)
  sheetOpen,  \* useState(false)
  form,       \* title, amount, currency, category, paidBy, split (useState each)
  db,         \* the rows of this trip in the backing store, newest first
  fetches,    \* fetchExpenses calls whose query has not been applied yet
  adding,     \* handleAdd calls waiting for their insert
  deleting,   \* the ids of the handleDelete calls waiting for their remote delete (a bag)
  calls,      \* how many times handleAdd was called
  removed,    \* history: the ids handleDelete has filtered out of the list
  route,      \* the screen the navigator shows: "budget", "plan" or "home"
  planItems,  \* PlanScreen: items, the local item list (useState)
  sections,   \* PlanScreen: groupByDate(items), computed at every render
  countdown,  \* PlanScreen: useState(null)
  planLoading,\* PlanScreen: useState(true)
  planSheet,  \* PlanScreen: sheetOpen, useState(false)
  planForm,   \* PlanScreen: itemType, name, category, date, time
  itemsDb,    \* the rows of this trip in the 'items' table, in the order of the query
  tripRow,    \* the row of this trip in the 'trips' table: its start_date
  planFetches,\* fetchItems calls that have not ended yet
  planCalls,  \* handler calls of the plan screen waiting for the backing store
  planCount,  \* how many times handleAdd of the plan screen was called
  trips,      \* HomeScreen: the local trip list (useState)
  homeLoading,\* HomeScreen: useState(true)
  tripsDb,    \* the rows of the 'trips' table, newest first
  homeFetches \* fetchTrips calls whose query has not been applied yet

screen == <<loading, sheetOpen, form, db, fetches, adding, deleting, calls, removed>>

planScreen ==
  <<planItems, sections, countdown, planLoading, planSheet, planForm, itemsDb, tripRow,
    planFetches, planCalls, planCount>>

homeScreen == <<trips, homeLoading, tripsDb, homeFetches>>

others == <<route, planScreen, homeScreen>>

budget == <<expenses, summary, pc, participants, screen>>

vars == <<budget, others>>

(***************************************************************************)
(* JavaScript numbers                                                      *)
(***************************************************************************)
NegInf == -1000000
PosInf == 1000000
NaN == 2000000

\* 0.01, the tolerance of `diff < -0.01`, in units of 1/600
Eps == 6

\* a + b
Add(a, b) ==
  IF a = NaN \/ b = NaN THEN NaN
  ELSE IF a = PosInf THEN (IF b = NegInf THEN NaN ELSE PosInf)
  ELSE IF a = NegInf THEN (IF b = PosInf THEN NaN ELSE NegInf)
  ELSE IF b = PosInf \/ b = NegInf THEN b
  ELSE a + b

\* -a
Neg(a) ==
  IF a = NaN THEN NaN
  ELSE IF a = PosInf THEN NegInf
  ELSE IF a = NegInf THEN PosInf
  ELSE 0 - a

\* a - b
Sub(a, b) == Add(a, Neg(b))

\* a / n for a count n >= 0 (n = 0: Infinity, -Infinity or NaN)
Div(a, n) ==
  IF a = NaN THEN NaN
  ELSE IF n = 0 THEN (IF a = 0 THEN NaN ELSE IF a > 0 THEN PosInf ELSE NegInf)
  ELSE IF a = PosInf \/ a = NegInf THEN a
  ELSE a \div n

\* a < b (false when either side is NaN)
Lt(a, b) == a # NaN /\ b # NaN /\ a < b

\* a > b
Gt(a, b) == Lt(b, a)

\* Math.abs(a)
Abs(a) ==
  IF a = NaN THEN NaN
  ELSE IF a = NegInf THEN PosInf
  ELSE IF a < 0 THEN 0 - a ELSE a

(***************************************************************************)
(* Objects used as maps                                                    *)
(***************************************************************************)
EmptyMap == [k \in {} |-> 0]

Put(m, k, v) == [x \in (DOMAIN m) \cup {k} |-> IF x = k THEN v ELSE m[x]]

\* (m[k] || 0): a missing key, 0 and NaN all read as 0
GetOrZero(m, k) ==
  IF k \in DOMAIN m /\ m[k] # 0 /\ m[k] # NaN THEN m[k] ELSE 0

(***************************************************************************)
(* Configuration                                                           *)
(***************************************************************************)
PEOPLE == <<"zeynep", "bartu">>

CURRENCIES == <<"TRY", "EUR", "USD", "GBP">>

(***************************************************************************)
(* summary = useMemo(() => {...}, [expenses])                              *)
(***************************************************************************)
\* totals pre-filled with every currency
NewTotals_Seeded == [c \in {CURRENCIES[i] : i \in 1..Len(CURRENCIES)} |-> 0]

\* const totals: Record<string, number> = {}
NewTotals == EmptyMap

\* one step of the first forEach: totals[e.currency] = (totals[e.currency] || 0) + e.amount
AddTotal(totals, e) ==
  Put(totals, e.currency, Add(GetOrZero(totals, e.currency), e.amount))

\* totals after the first k expenses
RECURSIVE TotalsLoop(_, _)
TotalsLoop(es, k) ==
  IF k = 0 THEN NewTotals ELSE AddTotal(TotalsLoop(es, k - 1), es[k])

\* one step of the first forEach: perPerson[e.paid_by][e.currency] += e.amount
AddPerPerson(perPerson, e) ==
  LET mine == IF e.paid_by \in DOMAIN perPerson THEN perPerson[e.paid_by] ELSE EmptyMap
  IN  Put(perPerson, e.paid_by,
          Put(mine, e.currency, Add(GetOrZero(mine, e.currency), e.amount)))

\* perPerson after the first k expenses
RECURSIVE PerPersonLoop(_, _)
PerPersonLoop(es, k) ==
  IF k = 0 THEN EmptyMap ELSE AddPerPerson(PerPersonLoop(es, k - 1), es[k])

\* if (e.split !== 'equal') return
IsShared(e) == e.split = "equal"

\* the Map byCurrency: keys in insertion order, and the items of each key
EmptyByCurrency == [keys |-> <<>>, items |-> EmptyMap]

\* every shared expense under the first key: the currency is not looked at
GroupStep_OneGroup(byCur, e) ==
  IF ~(e.split = "equal") THEN byCur
  ELSE IF byCur.keys # <<>>
       THEN [byCur EXCEPT !.items = Put(byCur.items, byCur.keys[1],
                                        Append(byCur.items[byCur.keys[1]], e))]
       ELSE [keys |-> <<e.currency>>, items |-> Put(byCur.items, e.currency, <<e>>)]

\* a new currency put in front of the keys instead of behind them
GroupStep_NewestFirst(byCur, e) ==
  IF ~(e.split = "equal") THEN byCur
  ELSE IF e.currency \in DOMAIN byCur.items
       THEN [byCur EXCEPT !.items = Put(byCur.items, e.currency,
                                        Append(byCur.items[e.currency], e))]
       ELSE [keys |-> <<e.currency>> \o byCur.keys,
             items |-> Put(byCur.items, e.currency, <<e>>)]

\* one step of the grouping forEach
GroupStep(byCur, e) ==
  IF ~IsShared(e) THEN byCur
  ELSE IF e.currency \in DOMAIN byCur.items
       THEN [byCur EXCEPT !.items = Put(byCur.items, e.currency,
                                        Append(byCur.items[e.currency], e))]
       ELSE [keys |-> Append(byCur.keys, e.currency),
             items |-> Put(byCur.items, e.currency, <<e>>)]

RECURSIVE GroupLoop(_, _)
GroupLoop(es, k) ==
  IF k = 0 THEN EmptyByCurrency ELSE GroupStep(GroupLoop(es, k - 1), es[k])

ByCurrency(es) == GroupLoop(es, Len(es))

\* PEOPLE.forEach((p) => (paid[p] = 0))
InitPaid(people) == [p \in {people[i] : i \in 1..Len(people)} |-> 0]

\* paid after the first k items: paid[e.paid_by] = (paid[e.paid_by] || 0) + e.amount
RECURSIVE PaidLoop(_, _, _)
PaidLoop(people, items, k) ==
  IF k = 0 THEN InitPaid(people)
  ELSE LET paid == PaidLoop(people, items, k - 1)
           e == items[k]
       IN  Put(paid, e.paid_by, Add(GetOrZero(paid, e.paid_by), e.amount))

\* items.reduce((s, e) => s + e.amount, 0), after the first k items
RECURSIVE TotalShared(_, _)
TotalShared(items, k) ==
  IF k = 0 THEN 0 ELSE Add(TotalShared(items, k - 1), items[k].amount)

PerHead_Undivided(totalShared, people) == totalShared

\* perHead = totalShared / PEOPLE.length
PerHead(totalShared, people) == Div(totalShared, Len(people))

\* no tolerance: diff < 0
Owes_NoTolerance(diff) == Lt(diff, 0)

\* diff < -0.01
Owes(diff) == Lt(diff, Neg(Eps))

\* p !== person && (paid[p] || 0) > perHead
CanCredit(paid, perHead, person, p) ==
  p # person /\ Gt(GetOrZero(paid, p), perHead)

\* the last match instead of the first
FindCreditor_Last(people, paid, perHead, person) ==
  LET hits == {i \in 1..Len(people) :
                 people[i] # person /\ Gt(GetOrZero(paid, people[i]), perHead)}
  IN  IF hits = {} THEN 0 ELSE CHOOSE i \in hits : \A j \in hits : i >= j

\* PEOPLE.find(...): index of the first match, 0 when find returns undefined
FindCreditor(people, paid, perHead, person) ==
  LET hits == {i \in 1..Len(people) : CanCredit(paid, perHead, person, people[i])}
  IN  IF hits = {} THEN 0 ELSE CHOOSE i \in hits : \A j \in hits : i <= j

\* the abs forgotten: amount: diff
DebtAmount_Signed(diff) == diff

\* the whole gap between the two payers instead of half of it
DebtAmount_Gap(diff) == Add(Abs(diff), Abs(diff))

\* amount: Math.abs(diff)
DebtAmount(diff) == Abs(diff)

\* body of PEOPLE.forEach((person) => ...): the debts pushed for one person
PersonDebts(people, paid, perHead, person, cur) ==
  LET diff == Sub(GetOrZero(paid, person), perHead)
      c == FindCreditor(people, paid, perHead, person)
  IN  IF Owes(diff) /\ c # 0
      THEN << [from |-> person, to |-> people[c],
               amount |-> DebtAmount(diff), currency |-> cur] >>
      ELSE <<>>

\* debts pushed by the first k people for one currency
RECURSIVE PeopleLoop(_, _, _, _, _)
PeopleLoop(people, paid, perHead, cur, k) ==
  IF k = 0 THEN <<>>
  ELSE PeopleLoop(people, paid, perHead, cur, k - 1)
         \o PersonDebts(people, paid, perHead, people[k], cur)

\* body of byCurrency.forEach((items, cur) => ...)
CurrencyDebts(people, items, cur) ==
  LET paid == PaidLoop(people, items, Len(items))
      perHead == PerHead(TotalShared(items, Len(items)), people)
  IN  PeopleLoop(people, paid, perHead, cur, Len(people))

\* debts pushed by the first k currencies of byCurrency
RECURSIVE DebtsLoop(_, _, _)
DebtsLoop(people, byCur, k) ==
  IF k = 0 THEN <<>>
  ELSE DebtsLoop(people, byCur, k - 1)
         \o CurrencyDebts(people, byCur.items[byCur.keys[k]], byCur.keys[k])

ComputeDebts(es, people) ==
  LET byCur == ByCurrency(es) IN DebtsLoop(people, byCur, Len(byCur.keys))

\* the memoised value for a participant list
SummaryWith(es, people) ==
  [totals |-> TotalsLoop(es, Len(es)),
   perPerson |-> PerPersonLoop(es, Len(es)),
   debts |-> ComputeDebts(es, people)]

Summary(es) == SummaryWith(es, PEOPLE)

(***************************************************************************)
(* The aggregation as a function of the expense list: the list is drawn    *)
(* from a bounded set of inputs and a render recomputes the memo.          *)
(***************************************************************************)
MaxLen == 2

\* paid_by is a string: the two participants and somebody who is not one
\* (fetched rows are stored as they come, line 150)
Payers == {"zeynep", "bartu", "guest"}

Currencies == {"TRY", "EUR"}

Splits == {"equal", "solo"}

\* amount is a number: -0.03, 0, 0.02, 0.03 and NaN.  handleAdd stores
\* parseFloat(amount) unvalidated (line 227), so "." or "," puts NaN into the
\* local list through the fallback branch (line 245).
Amounts == {NaN, 0 - 3 * Eps, 0, 2 * Eps, 3 * Eps}

ExpenseValues ==
  [amount : Amounts, currency : Currencies, paid_by : Payers, split : Splits]

WithId(v, i) ==
  [id |-> i, amount |-> v.amount, currency |-> v.currency,
   paid_by |-> v.paid_by, split |-> v.split]

\* const [expenses, setExpenses] = useState<Expense[]>([]): the memo of the empty list
InitialSummary == Summary(<<>>)

\* const CURRENT_USER = 'zeynep' (lib/supabase)
CURRENT_USER == "zeynep"

\* text is a sequence of characters
NoText == <<>>

\* the form state after useState / resetForm
DefaultForm ==
  [title |-> NoText, amount |-> NoText, currency |-> "TRY", category |-> "food",
   paidBy |-> CURRENT_USER, split |-> "equal"]

\* the screen before anything has been fetched, typed or sent
ScreenIdle ==
  /\ loading = TRUE
  /\ sheetOpen = FALSE
  /\ form = DefaultForm
  /\ db = <<>>
  /\ fetches = {}
  /\ adding = {}
  /\ deleting = EmptyBag
  /\ calls = 0
  /\ removed = {}

\* JavaScript null, kept apart from every text (no character is a word)
Null == <<"null">>

\* the day of today and the start_date of the trip, as day numbers
Today == 0
TripStart == 2

\* the form state of the plan screen after useState / resetForm
DefaultPlanForm ==
  [itemType |-> "place", name |-> NoText, category |-> "landmark", date |-> NoText,
   time |-> NoText]

\* the plan screen while it is not mounted
PlanHandlersIdle ==
  /\ countdown = Null
  /\ planLoading = TRUE
  /\ planSheet = FALSE
  /\ planForm = DefaultPlanForm
  /\ itemsDb = <<>>
  /\ tripRow = [start_date |-> TripStart]
  /\ planFetches = {}
  /\ planCalls = {}
  /\ planCount = 0

PlanIdle ==
  /\ planItems = <<>>
  /\ sections = <<>>
  /\ PlanHandlersIdle

\* the home screen while it is not mounted
HomeIdle ==
  /\ trips = <<>>
  /\ homeLoading = TRUE
  /\ tripsDb = <<>>
  /\ homeFetches = {}

\* the budget screen is the one shown
BudgetShown ==
  /\ route = "budget"
  /\ PlanIdle
  /\ HomeIdle

InitSummary ==
  /\ \E n \in 0..MaxLen : \E f \in [1..n -> ExpenseValues] :
       expenses = [i \in 1..n |-> WithId(f[i], i)]
  /\ summary = InitialSummary
  /\ pc = "set"
  /\ participants = PEOPLE
  /\ ScreenIdle
  /\ BudgetShown

\* the render after setExpenses: useMemo recomputes summary from expenses
Render ==
  /\ pc = "set"
  /\ summary' = SummaryWith(expenses, participants)
  /\ pc' = "rendered"
  /\ UNCHANGED <<expenses, participants, screen, others>>

NextSummary == Render

SpecSummary == InitSummary /\ [][NextSummary]_vars

(***************************************************************************)
(* The same computation with the participant list as a parameter: the      *)
(* list is drawn from the lists of zero to three people.                   *)
(***************************************************************************)
Trio == <<"zeynep", "bartu", "ali">>

PeopleLists == {SubSeq(Trio, 1, n) : n \in 0..Len(Trio)}

\* payers: "ali" is a participant of the three-person list only
PayersAmong == {Trio[i] : i \in 1..Len(Trio)}

\* amounts 0, 0.06, 0.09 and NaN
AmountsAmong == {NaN, 0, 6 * Eps, 9 * Eps}

ExpenseValuesAmong ==
  [amount : AmountsAmong, currency : Currencies, paid_by : PayersAmong, split : Splits]

InitPeople ==
  /\ \E n \in 0..MaxLen : \E f \in [1..n -> ExpenseValuesAmong] :
       expenses = [i \in 1..n |-> WithId(f[i], i)]
  /\ participants \in PeopleLists
  /\ summary = SummaryWith(<<>>, participants)
  /\ pc = "set"
  /\ ScreenIdle
  /\ BudgetShown

SpecPeople == InitPeople /\ [][NextSummary]_vars

(***************************************************************************)
(* The budget screen: its state, the backing store it talks to, and its    *)
(* handlers, split where they await the backend.                           *)
(***************************************************************************)
\* handleAdd calls of one run
MaxAdds == 1
\* handleDelete calls in flight at one time
MaxDeletes == 1

\* const { id } = useLocalSearchParams(): the trip the screen shows
TripId == "trip"

\* String.prototype.trim: white space off both ends
Spaces == {" "}

RECURSIVE TrimStart(_)
TrimStart(t) ==
  IF t # <<>> /\ Head(t) \in Spaces THEN TrimStart(Tail(t)) ELSE t

RECURSIVE TrimEnd(_)
TrimEnd(t) ==
  IF t # <<>> /\ t[Len(t)] \in Spaces
  THEN TrimEnd(SubSeq(t, 1, Len(t) - 1))
  ELSE t

Trim(t) == TrimEnd(TrimStart(t))

\* parseFloat: white space is skipped, then an optional sign, then the
\* longest run of decimal digits with at most one "."; what follows is
\* ignored, and a text that does not start this way is NaN.  Exponents and
\* the word Infinity are not modelled, and a fraction is read to two digits.
Digits == <<"0", "1", "2", "3", "4", "5", "6", "7", "8", "9">>

IsDigit(ch) == \E d \in DOMAIN Digits : Digits[d] = ch

DigitValue(ch) == (CHOOSE d \in DOMAIN Digits : Digits[d] = ch) - 1

RECURSIVE DigitPrefix(_)
DigitPrefix(t) ==
  IF t # <<>> /\ IsDigit(Head(t))
  THEN <<Head(t)>> \o DigitPrefix(Tail(t))
  ELSE <<>>

RECURSIVE WholeValue(_)
WholeValue(ds) ==
  IF ds = <<>> THEN 0
  ELSE 10 * WholeValue(SubSeq(ds, 1, Len(ds) - 1)) + DigitValue(ds[Len(ds)])

FractionValue(ds) ==
  (IF Len(ds) >= 1 THEN DigitValue(ds[1]) * 10 * Eps ELSE 0)
  + (IF Len(ds) >= 2 THEN DigitValue(ds[2]) * Eps ELSE 0)

ParseFloat(t) ==
  LET s == TrimStart(t)
      signed == s # <<>> /\ Head(s) \in {"+", "-"}
      body == IF signed THEN Tail(s) ELSE s
      whole == DigitPrefix(body)
      rest == SubSeq(body, Len(whole) + 1, Len(body))
      frac == IF rest # <<>> /\ Head(rest) = "." THEN DigitPrefix(Tail(rest)) ELSE <<>>
      magnitude == WholeValue(whole) * 100 * Eps + FractionValue(frac)
  IN  IF whole = <<>> /\ frac = <<>> THEN NaN
      ELSE IF signed /\ Head(s) = "-" THEN Neg(magnitude)
      ELSE magnitude

\* what the text inputs and the buttons of the sheet can set
TitleTexts == {NoText, <<" ">>, <<" ", "k", " ">>}
AmountTexts == {NoText, <<"3">>, <<",">>}
FormCurrencies == {"TRY", "EUR"}
FormCategories == {"food", "other"}

\* const newExpense = { trip_id, title: title.trim(), amount: parseFloat(amount), ... }
NewExpense(f) ==
  [trip_id |-> TripId, title |-> Trim(f.title), amount |-> ParseFloat(f.amount),
   currency |-> f.currency, category |-> f.category, paid_by |-> f.paidBy,
   split |-> f.split, added_by |-> CURRENT_USER]

\* { ...newExpense, id }: created_at is the position in the list
WithKey(e, key) ==
  [trip_id |-> e.trip_id, title |-> e.title, amount |-> e.amount,
   currency |-> e.currency, category |-> e.category, paid_by |-> e.paid_by,
   split |-> e.split, added_by |-> e.added_by, id |-> key]

\* id: Date.now().toString() of the k-th call
LocalId(k) == <<"local", k>>

\* the id the backing store gives the row of the k-th call
RowId(k) == <<"db", k>>

\* JSON has no NaN: the request body carries null, which every sum of the
\* summary reads back as 0
Stored(e) ==
  [e EXCEPT !.amount = IF @ \in {NaN, PosInf, NegInf} THEN 0 ELSE @]

\* a row that was in the store before the screen was opened
SeedRow ==
  WithKey([trip_id |-> TripId, title |-> <<"s">>, amount |-> 2 * Eps,
           currency |-> "TRY", category |-> "food", paid_by |-> "bartu",
           split |-> "equal", added_by |-> "bartu"], RowId(0))

Ids(es) == {es[i].id : i \in DOMAIN es}

\* prev.filter((e) => e.id !== expenseId)
Without_Head(es, key) == IF es = <<>> THEN <<>> ELSE Tail(es)

RECURSIVE Without(_, _)
Without(es, key) ==
  IF es = <<>> THEN <<>>
  ELSE IF Head(es).id # key THEN <<Head(es)>> \o Without(Tail(es), key)
  ELSE Without(Tail(es), key)

\* [localExpense, ...prev]
Prepend_AtEnd(e, es) == Append(es, e)

Prepend(e, es) == <<e>> \o es

\* useMemo(..., [expenses]): every setExpenses hands over a new array, so the
\* summary is recomputed from it
UseMemo_Once(es) == InitialSummary

UseMemo(es) == SummaryWith(es, PEOPLE)

\* the state after the first render and its effect: fetchExpenses is running
Init ==
  /\ expenses = <<>>
  /\ summary = InitialSummary
  /\ pc = "rendered"
  /\ participants = PEOPLE
  /\ loading = TRUE
  /\ sheetOpen = FALSE
  /\ form = DefaultForm
  /\ db \in {<<>>, <<SeedRow>>}
  /\ fetches = {[n |-> 0, state |-> "sent", data |-> <<>>]}
  /\ adding = {}
  /\ deleting = EmptyBag
  /\ calls = 0
  /\ removed = {}
  /\ BudgetShown

\* the FAB and the empty state: setSheetOpen(true)
OpenSheet ==
  /\ route = "budget"
  /\ ~sheetOpen
  /\ sheetOpen' = TRUE
  /\ UNCHANGED <<expenses, summary, pc, participants, loading, form, db, fetches,
                 adding, deleting, calls, removed, others>>

\* BottomSheet onClose: setSheetOpen(false)
CloseSheet ==
  /\ route = "budget"
  /\ sheetOpen
  /\ sheetOpen' = FALSE
  /\ UNCHANGED <<expenses, summary, pc, participants, loading, form, db, fetches,
                 adding, deleting, calls, removed, others>>

\* TextInput onChangeText={setTitle}
SetTitle ==
  \E t \in TitleTexts :
    /\ route = "budget"
    /\ sheetOpen
    /\ form.title # t
    /\ form' = [form EXCEPT !.title = t]
    /\ UNCHANGED <<expenses, summary, pc, participants, loading, sheetOpen, db,
                   fetches, adding, deleting, calls, removed, others>>

\* TextInput onChangeText={setAmount}, keyboardType decimal-pad
SetAmount ==
  \E t \in AmountTexts :
    /\ route = "budget"
    /\ sheetOpen
    /\ form.amount # t
    /\ form' = [form EXCEPT !.amount = t]
    /\ UNCHANGED <<expenses, summary, pc, participants, loading, sheetOpen, db,
                   fetches, adding, deleting, calls, removed, others>>

\* the currency buttons: setCurrency(c)
SetCurrency ==
  \E c \in FormCurrencies :
    /\ route = "budget"
    /\ sheetOpen
    /\ form.currency # c
    /\ form' = [form EXCEPT !.currency = c]
    /\ UNCHANGED <<expenses, summary, pc, participants, loading, sheetOpen, db,
                   fetches, adding, deleting, calls, removed, others>>

\* the category chips: setCategory(cat.key)
SetCategory ==
  \E c \in FormCategories :
    /\ route = "budget"
    /\ sheetOpen
    /\ form.category # c
    /\ form' = [form EXCEPT !.category = c]
    /\ UNCHANGED <<expenses, summary, pc, participants, loading, sheetOpen, db,
                   fetches, adding, deleting, calls, removed, others>>

\* the payer buttons, one for each of PEOPLE: setPaidBy(p)
SetPaidBy ==
  \E p \in {PEOPLE[i] : i \in DOMAIN PEOPLE} :
    /\ route = "budget"
    /\ sheetOpen
    /\ form.paidBy # p
    /\ form' = [form EXCEPT !.paidBy = p]
    /\ UNCHANGED <<expenses, summary, pc, participants, loading, sheetOpen, db,
                   fetches, adding, deleting, calls, removed, others>>

\* the split buttons: setSplit('equal' | 'solo')
SetSplit ==
  \E sp \in Splits :
    /\ route = "budget"
    /\ sheetOpen
    /\ form.split # sp
    /\ form' = [form EXCEPT !.split = sp]
    /\ UNCHANGED <<expenses, summary, pc, participants, loading, sheetOpen, db,
                   fetches, adding, deleting, calls, removed, others>>

\* the query of a fetchExpenses reaches the store, which answers with the
\* rows of the trip, newest first, or with an error
FetchRespond ==
  \E f \in fetches : \E ok \in BOOLEAN :
    /\ route = "budget"
    /\ f.state = "sent"
    /\ fetches' = (fetches \ {f}) \cup
         {[n |-> f.n, state |-> IF ok THEN "data" ELSE "error",
           data |-> IF ok THEN db ELSE <<>>]}
    /\ UNCHANGED <<expenses, summary, pc, participants, loading, sheetOpen, form,
                   db, adding, deleting, calls, removed, others>>

\* the list a fetch leaves when its query failed: catch { setExpenses([]) }
Caught_Keeps(prev) == prev

Caught(prev) == <<>>

\* fetchExpenses after its await: setExpenses(data || []) or, in the catch,
\* setExpenses([]); finally setLoading(false)
FetchDone ==
  \E f \in fetches :
    /\ route = "budget"
    /\ f.state # "sent"
    /\ expenses' = (IF f.state = "data" THEN f.data ELSE Caught(expenses))
    /\ summary' = UseMemo(expenses')
    /\ loading' = FALSE
    /\ fetches' = fetches \ {f}
    /\ UNCHANGED <<pc, participants, sheetOpen, form, db, adding, deleting, calls,
                   removed, others>>

\* !title.trim() || !amount
Blank_Untrimmed(f) == f.title = NoText \/ f.amount = NoText

Blank(f) == Trim(f.title) = NoText \/ f.amount = NoText

\* handleAdd with a blank title or an empty amount:
\* if (!title.trim() || !amount) return
HandleAddBlank ==
  /\ route = "budget"
  /\ sheetOpen
  /\ calls < MaxAdds
  /\ Blank(form)
  /\ calls' = calls + 1
  /\ UNCHANGED <<expenses, summary, pc, participants, loading, sheetOpen, form,
                 db, fetches, adding, deleting, removed, others>>

\* handleAdd up to its await: the guard, newExpense, the insert is sent
HandleAddStart ==
  /\ route = "budget"
  /\ sheetOpen
  /\ calls < MaxAdds
  /\ ~Blank(form)
  /\ calls' = calls + 1
  /\ adding' = adding \cup
       {[n |-> calls + 1, entered |-> form, payload |-> NewExpense(form)]}
  /\ UNCHANGED <<expenses, summary, pc, participants, loading, sheetOpen, form,
                 db, fetches, deleting, removed, others>>

\* handleAdd after its await.  The insert took place: the row is stored and
\* fetchExpenses is started without being awaited.  Or it failed (an error
\* is returned or thrown, nothing is stored): the catch puts localExpense in
\* front of the list.  Then setSheetOpen(false) and resetForm().
HandleAddDone ==
  \E a \in adding : \E ok \in BOOLEAN :
    /\ route = "budget"
    /\ adding' = adding \ {a}
    /\ db' = IF ok THEN Prepend(WithKey(Stored(a.payload), RowId(a.n)), db) ELSE db
    /\ IF ok
       THEN /\ fetches' = fetches \cup {[n |-> a.n, state |-> "sent", data |-> <<>>]}
            /\ UNCHANGED <<expenses, summary>>
       ELSE /\ expenses' = Prepend(WithKey(a.payload, LocalId(a.n)), expenses)
            /\ summary' = UseMemo(expenses')
            /\ UNCHANGED fetches
    /\ sheetOpen' = FALSE
    /\ form' = DefaultForm
    /\ UNCHANGED <<pc, participants, loading, deleting, calls, removed, others>>

\* handleDelete(expense.id) of a displayed card, up to its await
HandleDeleteStart ==
  \E key \in Ids(expenses) :
    /\ route = "budget"
    /\ BagCardinality(deleting) < MaxDeletes
    /\ deleting' = deleting (+) SetToBag({key})
    /\ UNCHANGED <<expenses, summary, pc, participants, loading, sheetOpen, form,
                   db, fetches, adding, calls, removed, others>>

\* handleDelete after its await: the remote delete took place or failed (the
\* error is not looked at), then the id is filtered out of the list
HandleDeleteDone ==
  \E key \in BagToSet(deleting) : \E ok \in BOOLEAN :
    /\ route = "budget"
    /\ deleting' = deleting (-) SetToBag({key})
    /\ db' = IF ok THEN Without(db, key) ELSE db
    /\ expenses' = Without(expenses, key)
    /\ summary' = UseMemo(expenses')
    /\ removed' = removed \cup {key}
    /\ UNCHANGED <<pc, participants, loading, sheetOpen, form, fetches, adding,
                   calls, others>>

Next ==
  \/ OpenSheet
  \/ CloseSheet
  \/ SetTitle
  \/ SetAmount
  \/ FetchRespond
  \/ FetchDone
  \/ HandleAddBlank
  \/ HandleAddStart
  \/ HandleAddDone
  \/ HandleDeleteStart
  \/ HandleDeleteDone

Spec == Init /\ [][Next]_vars

\* The sheet as it is filled in and sent: the first fetch has come back, the
\* sheet is open, every input of the sheet is used.
InitForm ==
  /\ db \in {<<>>, <<SeedRow>>}
  /\ expenses = db
  /\ summary = UseMemo(expenses)
  /\ pc = "rendered"
  /\ participants = PEOPLE
  /\ loading = FALSE
  /\ sheetOpen = TRUE
  /\ form = DefaultForm
  /\ fetches = {}
  /\ adding = {}
  /\ deleting = EmptyBag
  /\ calls = 0
  /\ removed = {}
  /\ BudgetShown

NextForm ==
  \/ SetTitle
  \/ SetAmount
  \/ SetCurrency
  \/ SetCategory
  \/ SetPaidBy
  \/ SetSplit
  \/ HandleAddBlank
  \/ HandleAddStart
  \/ HandleAddDone

SpecForm == InitForm /\ [][NextForm]_vars

(***************************************************************************)
(* The plan screen: groupByDate                                            *)
(***************************************************************************)
MaxItems == 3

\* Array.prototype.sort without a comparator orders strings by their UTF-16
\* code units: the characters used here, in the order of their codes
CodeOrder == <<" ", "-", "0", "1", "2", "3", "4", "5", "6", "7", "8", "9", "k", "s">>

CodeUnit(ch) == CHOOSE i \in DOMAIN CodeOrder : CodeOrder[i] = ch

RECURSIVE LessText(_, _)
LessText(a, b) ==
  IF a = <<>> THEN b # <<>>
  ELSE IF b = <<>> THEN FALSE
  ELSE IF Head(a) = Head(b) THEN LessText(Tail(a), Tail(b))
  ELSE CodeUnit(Head(a)) < CodeUnit(Head(b))

RECURSIVE InsertKey(_, _)
InsertKey(key, sorted) ==
  IF sorted = <<>> THEN <<key>>
  ELSE IF LessText(key, Head(sorted)) THEN <<key>> \o sorted
  ELSE <<Head(sorted)>> \o InsertKey(key, Tail(sorted))

\* [...dated.keys()].sort()
SortKeys_Unsorted(keys) == keys

RECURSIVE SortKeys(_)
SortKeys(keys) ==
  IF keys = <<>> THEN <<>> ELSE InsertKey(Head(keys), SortKeys(Tail(keys)))

\* if (item.date): null and the empty string are falsy
HasDate(item) == item.date \notin {Null, NoText}

\* the forEach of groupByDate after the first k items: the Map dated (its
\* keys in insertion order) and the array undated
RECURSIVE DateLoop(_, _)
DateLoop(its, k) ==
  IF k = 0 THEN [keys |-> <<>>, dated |-> EmptyMap, undated |-> <<>>]
  ELSE LET acc == DateLoop(its, k - 1)
           item == its[k]
       IN  IF HasDate(item)
           THEN IF item.date \in DOMAIN acc.dated
                THEN [acc EXCEPT !.dated = Put(acc.dated, item.date,
                                               Append(acc.dated[item.date], item))]
                ELSE [acc EXCEPT !.keys = Append(acc.keys, item.date),
                                 !.dated = Put(acc.dated, item.date, <<item>>)]
           ELSE [acc EXCEPT !.undated = Append(acc.undated, item)]

\* new Date(key), getDate() and the month of toLocaleString: a YYYY-MM-DD key
\* gives its day and its month, without the year; any other text is taken to
\* be an invalid date.  Time zones are not modelled.
IsIsoDate(key) ==
  /\ Len(key) = 10
  /\ \A i \in {1, 2, 3, 4, 6, 7, 9, 10} : IsDigit(key[i])
  /\ \A i \in {5, 8} : key[i] = "-"

DateLabel(key) ==
  IF IsIsoDate(key)
  THEN [day |-> WholeValue(SubSeq(key, 9, 10)), month |-> WholeValue(SubSeq(key, 6, 7))]
  ELSE "Invalid Date"

\* the section of the items without a date
UndatedLabel == "Tarihsiz"

\* sortedKeys.forEach((key) => sections.push({ title: label, data: dated.get(key) }))
DatedSections(acc) ==
  LET sortedKeys == SortKeys(acc.keys)
  IN  [i \in 1..Len(sortedKeys) |->
         [title |-> DateLabel(sortedKeys[i]), data |-> acc.dated[sortedKeys[i]]]]

GroupByDate(its) ==
  LET acc == DateLoop(its, Len(its))
  IN  IF Len(acc.undated) > 0
      THEN Append(DatedSections(acc), [title |-> UndatedLabel, data |-> acc.undated])
      ELSE DatedSections(acc)

\* the dates a list of items is drawn from: two days of one month, a text
\* that is no date, the empty string, null
May02 == <<"2", "0", "2", "5", "-", "0", "5", "-", "0", "2">>
May10 == <<"2", "0", "2", "5", "-", "0", "5", "-", "1", "0">>
DateValues == {Null, NoText, May02, May10, <<"k">>}

\* the budget screen while it is not mounted
BudgetIdle ==
  /\ expenses = <<>>
  /\ summary = InitialSummary
  /\ participants = PEOPLE
  /\ ScreenIdle

InitGroups ==
  /\ \E n \in 0..MaxItems : \E f \in [1..n -> DateValues] :
       planItems = [i \in 1..n |-> [id |-> i, date |-> f[i]]]
  /\ sections = <<>>
  /\ pc = "set"
  /\ route = "plan"
  /\ PlanHandlersIdle
  /\ BudgetIdle
  /\ HomeIdle

\* const sections = groupByDate(items)
RenderSections ==
  /\ pc = "set"
  /\ sections' = GroupByDate(planItems)
  /\ pc' = "rendered"
  /\ UNCHANGED <<expenses, summary, participants, screen, route, planItems, countdown,
                 planLoading, planSheet, planForm, itemsDb, tripRow, planFetches,
                 planCalls, planCount, homeScreen>>

NextGroups == RenderSections

SpecGroups == InitGroups /\ [][NextGroups]_vars

(***************************************************************************)
(* The plan screen: its state, the backing store and its handlers, split   *)
(* where they await the backend.                                           *)
(***************************************************************************)
\* handleDelete and handleMarkVisited calls of the plan screen in flight at
\* one time
MaxPending == 1

\* what the inputs of the sheet can set; the type toggle, the category
\* chips and the time input are left as they are
NameTexts == {NoText, <<" ">>, <<" ", "k", " ">>}
DateTexts == {NoText, May02}

\* x || null
OrNull(text) == IF text = NoText THEN Null ELSE text

\* const newItem = { trip_id, type, title: name.trim(), ... }
NewItem(f) ==
  [trip_id |-> TripId, type |-> f.itemType, title |-> Trim(f.name),
   category |-> IF f.itemType = "place" THEN f.category ELSE Null,
   date |-> OrNull(f.date), time |-> OrNull(f.time), status |-> "planned",
   file_url |-> Null, added_by |-> CURRENT_USER]

\* { ...newItem, id }: created_at is left out
ItemWithKey(e, key) ==
  [trip_id |-> e.trip_id, type |-> e.type, title |-> e.title, category |-> e.category,
   date |-> e.date, time |-> e.time, status |-> e.status, file_url |-> e.file_url,
   added_by |-> e.added_by, id |-> key]

\* a row that was in the 'items' table before the screen was opened
SeedItem ==
  ItemWithKey([trip_id |-> TripId, type |-> "place", title |-> <<"s">>,
               category |-> "cafe", date |-> May10, time |-> Null,
               status |-> "planned", file_url |-> Null, added_by |-> "bartu"],
              RowId(0))

\* order('date', { ascending: true, nullsFirst: false }): the place of a new
\* row among the rows of the query (rows of the same date in stored order;
\* no row of the model has a time)
RECURSIVE InsertByDate(_, _)
InsertByDate(row, rows) ==
  IF rows = <<>> THEN <<row>>
  ELSE IF row.date # Null /\ (Head(rows).date = Null \/ LessText(row.date, Head(rows).date))
       THEN <<row>> \o rows
       ELSE <<Head(rows)>> \o InsertByDate(row, Tail(rows))

\* [...prev, localItem]
AppendItem(item, its) == Append(its, item)

\* prev.map((i) => (i.id === itemId ? { ...i, status: 'visited' } : i))
Visit(its, key) ==
  [i \in DOMAIN its |-> IF its[i].id = key THEN [its[i] EXCEPT !.status = "visited"] ELSE its[i]]

\* getCountdown(startDate), for a start_date that is not null
GetCountdown(startDate) ==
  LET diff == startDate - Today
  IN  IF diff < 0 THEN Null
      ELSE IF diff = 0 THEN <<"Bugun!">>
      ELSE <<diff, "gun kaldi">>

\* the plan screen after its first render and its effect: fetchItems is running
PlanMounted ==
  /\ planItems = <<>>
  /\ sections = <<>>
  /\ countdown = Null
  /\ planLoading = TRUE
  /\ planSheet = FALSE
  /\ planForm = DefaultPlanForm
  /\ itemsDb \in {<<>>, <<SeedItem>>}
  /\ tripRow = [start_date |-> TripStart]
  /\ planFetches = {[n |-> 0, state |-> "sent", data |-> <<>>]}
  /\ planCalls = {}
  /\ planCount = 0

\* the FAB and the empty state: setSheetOpen(true)
PlanOpenSheet ==
  /\ route = "plan"
  /\ ~planSheet
  /\ planSheet' = TRUE
  /\ UNCHANGED <<budget, route, homeScreen, planItems, sections, countdown, planLoading,
                 planForm, itemsDb, tripRow, planFetches, planCalls, planCount>>

\* BottomSheet onClose: setSheetOpen(false)
PlanCloseSheet ==
  /\ route = "plan"
  /\ planSheet
  /\ planSheet' = FALSE
  /\ UNCHANGED <<budget, route, homeScreen, planItems, sections, countdown, planLoading,
                 planForm, itemsDb, tripRow, planFetches, planCalls, planCount>>

\* TextInput onChangeText={setName}
SetName ==
  \E t \in NameTexts :
    /\ route = "plan"
    /\ planSheet
    /\ planForm.name # t
    /\ planForm' = [planForm EXCEPT !.name = t]
    /\ UNCHANGED <<budget, route, homeScreen, planItems, sections, countdown,
                   planLoading, planSheet, itemsDb, tripRow, planFetches, planCalls,
                   planCount>>

\* TextInput onChangeText={setDate}
SetDate ==
  \E t \in DateTexts :
    /\ route = "plan"
    /\ planSheet
    /\ planForm.date # t
    /\ planForm' = [planForm EXCEPT !.date = t]
    /\ UNCHANGED <<budget, route, homeScreen, planItems, sections, countdown,
                   planLoading, planSheet, itemsDb, tripRow, planFetches, planCalls,
                   planCount>>

\* the items query of a fetchItems reaches the store, which answers with the
\* rows of the trip or with an error
ItemsRespond ==
  \E f \in planFetches : \E ok \in BOOLEAN :
    /\ route = "plan"
    /\ f.state = "sent"
    /\ planFetches' = (planFetches \ {f}) \cup
         {[n |-> f.n, state |-> IF ok THEN "items" ELSE "error",
           data |-> IF ok THEN itemsDb ELSE <<>>]}
    /\ UNCHANGED <<budget, route, homeScreen, planItems, sections, countdown,
                   planLoading, planSheet, planForm, itemsDb, tripRow, planCalls,
                   planCount>>

\* fetchItems after its first await: setItems(data || []) and the trip query
\* is sent; or, in the catch, setItems([]), and finally setLoading(false)
ItemsDone ==
  \E f \in planFetches :
    /\ route = "plan"
    /\ f.state \in {"items", "error"}
    /\ planItems' = (IF f.state = "items" THEN f.data ELSE Caught(planItems))
    /\ sections' = GroupByDate(planItems')
    /\ IF f.state = "items"
       THEN /\ planFetches' = (planFetches \ {f}) \cup
                 {[n |-> f.n, state |-> "trip", data |-> <<>>]}
            /\ UNCHANGED planLoading
       ELSE /\ planFetches' = planFetches \ {f}
            /\ planLoading' = FALSE
    /\ UNCHANGED <<budget, route, homeScreen, countdown, planSheet, planForm, itemsDb,
                   tripRow, planCalls, planCount>>

\* the trip query of a fetchItems reaches the store, which answers with the
\* row of the trip, with nothing that has a start_date, or the query throws
TripRespond ==
  \E f \in planFetches : \E outcome \in {"row", "none", "threw"} :
    /\ route = "plan"
    /\ f.state = "trip"
    /\ planFetches' = (planFetches \ {f}) \cup
         {[n |-> f.n, state |-> outcome, data |-> <<>>]}
    /\ UNCHANGED <<budget, route, homeScreen, planItems, sections, countdown,
                   planLoading, planSheet, planForm, itemsDb, tripRow, planCalls,
                   planCount>>

\* fetchItems after its second await: with a start_date
\* setCountdown(getCountdown(..));
\* after a throw the catch does setItems([]); finally setLoading(false)
TripDone ==
  \E f \in planFetches :
    /\ route = "plan"
    /\ f.state \in {"row", "none", "threw"}
    /\ planFetches' = planFetches \ {f}
    /\ countdown' = IF f.state = "row" THEN GetCountdown(tripRow.start_date)
                    ELSE countdown
    /\ planItems' = IF f.state = "threw" THEN Caught(planItems) ELSE planItems
    /\ sections' = GroupByDate(planItems')
    /\ planLoading' = FALSE
    /\ UNCHANGED <<budget, route, homeScreen, planSheet, planForm, itemsDb, tripRow,
                   planCalls, planCount>>

\* handleAdd of the plan screen with a blank name: if (!name.trim()) return
PlanAddBlank ==
  /\ route = "plan"
  /\ planSheet
  /\ planCount < MaxAdds
  /\ Trim(planForm.name) = NoText
  /\ planCount' = planCount + 1
  /\ UNCHANGED <<budget, route, homeScreen, planItems, sections, countdown, planLoading,
                 planSheet, planForm, itemsDb, tripRow, planFetches, planCalls>>

\* handleAdd of the plan screen up to its await: newItem, the insert is sent
PlanAddStart ==
  /\ route = "plan"
  /\ planSheet
  /\ planCount < MaxAdds
  /\ Trim(planForm.name) # NoText
  /\ planCount' = planCount + 1
  /\ planCalls' = planCalls \cup
       {[op |-> "add", n |-> planCount + 1, entered |-> planForm,
         payload |-> NewItem(planForm)]}
  /\ UNCHANGED <<budget, route, homeScreen, planItems, sections, countdown, planLoading,
                 planSheet, planForm, itemsDb, tripRow, planFetches>>

\* handleAdd of the plan screen after its await.  The insert took place: the
\* row is stored and fetchItems is started without being awaited.  Or it
\* failed: the catch puts localItem at the end of the list.  Then
\* setSheetOpen(false) and resetForm().
PlanAddDone ==
  \E c \in planCalls : \E ok \in BOOLEAN :
    /\ route = "plan"
    /\ c.op = "add"
    /\ planCalls' = planCalls \ {c}
    /\ itemsDb' = IF ok THEN InsertByDate(ItemWithKey(c.payload, RowId(c.n)), itemsDb)
                  ELSE itemsDb
    /\ IF ok
       THEN /\ planFetches' = planFetches \cup
                 {[n |-> c.n, state |-> "sent", data |-> <<>>]}
            /\ UNCHANGED <<planItems, sections>>
       ELSE /\ planItems' = AppendItem(ItemWithKey(c.payload, LocalId(c.n)), planItems)
            /\ sections' = GroupByDate(planItems')
            /\ UNCHANGED planFetches
    /\ planSheet' = FALSE
    /\ planForm' = DefaultPlanForm
    /\ UNCHANGED <<budget, route, homeScreen, countdown, planLoading, tripRow,
                   planCount>>

\* handleDelete(item.id) of a displayed item, up to its await
PlanDeleteStart ==
  \E key \in Ids(planItems) :
    /\ route = "plan"
    /\ Cardinality({c \in planCalls : c.op # "add"}) < MaxPending
    /\ planCalls' = planCalls \cup {[op |-> "delete", id |-> key]}
    /\ UNCHANGED <<budget, route, homeScreen, planItems, sections, countdown,
                   planLoading, planSheet, planForm, itemsDb, tripRow, planFetches,
                   planCount>>

\* handleDelete after its await: the remote delete took place or failed (the
\* error is not looked at), then the id is filtered out of the list
PlanDeleteDone ==
  \E c \in planCalls : \E ok \in BOOLEAN :
    /\ route = "plan"
    /\ c.op = "delete"
    /\ planCalls' = planCalls \ {c}
    /\ itemsDb' = IF ok THEN Without(itemsDb, c.id) ELSE itemsDb
    /\ planItems' = Without(planItems, c.id)
    /\ sections' = GroupByDate(planItems')
    /\ UNCHANGED <<budget, route, homeScreen, countdown, planLoading, planSheet,
                   planForm, tripRow, planFetches, planCount>>

\* handleMarkVisited(item.id) of a displayed item, up to its await
MarkVisitedStart ==
  \E key \in Ids(planItems) :
    /\ route = "plan"
    /\ Cardinality({c \in planCalls : c.op # "add"}) < MaxPending
    /\ planCalls' = planCalls \cup {[op |-> "mark", id |-> key]}
    /\ UNCHANGED <<budget, route, homeScreen, planItems, sections, countdown,
                   planLoading, planSheet, planForm, itemsDb, tripRow, planFetches,
                   planCount>>

\* handleMarkVisited after its await: the remote update took place or failed
\* (the error is not looked at), then the status is set in the list
MarkVisitedDone ==
  \E c \in planCalls : \E ok \in BOOLEAN :
    /\ route = "plan"
    /\ c.op = "mark"
    /\ planCalls' = planCalls \ {c}
    /\ itemsDb' = IF ok THEN Visit(itemsDb, c.id) ELSE itemsDb
    /\ planItems' = Visit(planItems, c.id)
    /\ sections' = GroupByDate(planItems')
    /\ UNCHANGED <<budget, route, homeScreen, countdown, planLoading, planSheet,
                   planForm, tripRow, planFetches, planCount>>

NextPlan ==
  \/ PlanOpenSheet
  \/ PlanCloseSheet
  \/ SetName
  \/ SetDate
  \/ ItemsRespond
  \/ ItemsDone
  \/ TripRespond
  \/ TripDone
  \/ PlanAddBlank
  \/ PlanAddStart
  \/ PlanAddDone
  \/ PlanDeleteStart
  \/ PlanDeleteDone
  \/ MarkVisitedStart
  \/ MarkVisitedDone

(***************************************************************************)
(* The home screen: fetchTrips                                             *)
(***************************************************************************)
\* a row that was in the 'trips' table before the screen was opened
SeedTrip == [id |-> RowId(0), title |-> <<"s">>, start_date |-> TripStart]

\* the home screen after its first render and its effect: fetchTrips is running
HomeMounted ==
  /\ trips = <<>>
  /\ homeLoading = TRUE
  /\ tripsDb \in {<<>>, <<SeedTrip>>}
  /\ homeFetches = {[n |-> 0, state |-> "sent", data |-> <<>>]}

\* the query of fetchTrips reaches the store, which answers with the rows,
\* newest first, or with an error
TripsRespond ==
  \E f \in homeFetches : \E ok \in BOOLEAN :
    /\ route = "home"
    /\ f.state = "sent"
    /\ homeFetches' = (homeFetches \ {f}) \cup
         {[n |-> f.n, state |-> IF ok THEN "data" ELSE "error",
           data |-> IF ok THEN tripsDb ELSE <<>>]}
    /\ UNCHANGED <<budget, route, planScreen, trips, homeLoading, tripsDb>>

\* fetchTrips after its await: setTrips(data || []) or, in the catch,
\* setTrips([]); finally setLoading(false)
TripsDone ==
  \E f \in homeFetches :
    /\ route = "home"
    /\ f.state # "sent"
    /\ trips' = (IF f.state = "data" THEN f.data ELSE Caught(trips))
    /\ homeLoading' = FALSE
    /\ homeFetches' = homeFetches \ {f}
    /\ UNCHANGED <<budget, route, planScreen, tripsDb>>

NextHome ==
  \/ TripsRespond
  \/ TripsDone

(***************************************************************************)
(* The application with one of its screens mounted                         *)
(***************************************************************************)
InitApp ==
  \/ Init
  \/ /\ route = "plan"
     /\ pc = "rendered"
     /\ PlanMounted
     /\ BudgetIdle
     /\ HomeIdle
  \/ /\ route = "home"
     /\ pc = "rendered"
     /\ HomeMounted
     /\ BudgetIdle
     /\ PlanIdle

NextApp ==
  \/ Next
  \/ NextPlan
  \/ NextHome

SpecApp == InitApp /\ [][NextApp]_vars

\* the states a query that was sent can be answered with, and the states in
\* which the continuation of the await runs
Answers == {"data", "items", "error"}
Resumes == {"data", "items", "error", "trip", "row", "none", "threw"}

\* a step of a fetch, by what it does to the queries in flight: one that was
\* sent is answered or throws (FetchRespond, ItemsRespond, TripsRespond), or
\* the continuation of an answered one runs and takes it out or sends the
\* trip query (FetchDone, ItemsDone, TripRespond, TripDone, TripsDone)
FetchStep ==
  \/ /\ route = "budget"
     /\ UNCHANGED <<planFetches, homeFetches>>
     /\ \E f \in fetches :
          \/ f.state = "sent" /\ \E g \in Answers : \E rows \in {db, <<>>} :
               fetches' = (fetches \ {f}) \cup {[n |-> f.n, state |-> g, data |-> rows]}
          \/ f.state \in Resumes /\ fetches' = fetches \ {f}
  \/ /\ route = "plan"
     /\ UNCHANGED <<fetches, homeFetches>>
     /\ \E f \in planFetches :
          \/ f.state = "sent" /\ \E g \in Answers : \E rows \in {itemsDb, <<>>} :
               planFetches' = (planFetches \ {f}) \cup
                                {[n |-> f.n, state |-> g, data |-> rows]}
          \/ f.state \in Resumes /\ \E g \in Resumes :
               planFetches' = (planFetches \ {f}) \cup
                                {[n |-> f.n, state |-> g, data |-> <<>>]}
          \/ f.state \in Resumes /\ planFetches' = planFetches \ {f}
  \/ /\ route = "home"
     /\ UNCHANGED <<fetches, planFetches>>
     /\ \E f \in homeFetches :
          \/ f.state = "sent" /\ \E g \in Answers : \E rows \in {tripsDb, <<>>} :
               homeFetches' = (homeFetches \ {f}) \cup
                                {[n |-> f.n, state |-> g, data |-> rows]}
          \/ f.state \in Resumes /\ homeFetches' = homeFetches \ {f}

\* as long as a fetch is in flight, a fetch proceeds
FetchesProceed == WF_<<fetches, planFetches, homeFetches>>(FetchStep)

\* the screens with their fetches and the handlers that start one
NextLoad ==
  \/ FetchRespond \/ FetchDone
  \/ OpenSheet \/ SetTitle \/ SetAmount \/ HandleAddStart \/ HandleAddDone
  \/ ItemsRespond \/ ItemsDone \/ TripRespond \/ TripDone
  \/ PlanOpenSheet \/ SetName \/ PlanAddStart \/ PlanAddDone
  \/ TripsRespond \/ TripsDone

SpecLoad == InitApp /\ [][NextLoad]_vars /\ FetchesProceed

(***************************************************************************)
(* Reference quantities the properties are stated with                     *)
(***************************************************************************)
Rendered == pc = "rendered"

People == {PEOPLE[i] : i \in 1..Len(PEOPLE)}

\* the mathematical sum of the amounts of a list (NaN if any amount is NaN)
RECURSIVE SumAmounts(_)
SumAmounts(s) ==
  IF s = <<>> THEN 0 ELSE Add(SumAmounts(SubSeq(s, 1, Len(s) - 1)), s[Len(s)].amount)

InCurrency(es, c) == SelectSeq(es, LAMBDA e : e.currency = c)

PaidIn(es, p, c) == SelectSeq(es, LAMBDA e : e.currency = c /\ e.paid_by = p)

SharedIn(es, c) == SelectSeq(es, LAMBDA e : e.currency = c /\ e.split = "equal")

\* what p paid in equal-split expenses of currency c
SharedPaid(es, p, c) ==
  SumAmounts(SelectSeq(es, LAMBDA e : e.currency = c /\ e.split = "equal" /\ e.paid_by = p))

\* the per-head share of currency c
Share(es, c) == Div(SumAmounts(SharedIn(es, c)), Len(PEOPLE))

DebtsIn(ds, c) == SelectSeq(ds, LAMBDA d : d.currency = c)

RECURSIVE SumDebts(_)
SumDebts(ds) ==
  IF ds = <<>> THEN 0 ELSE Add(SumDebts(SubSeq(ds, 1, Len(ds) - 1)), ds[Len(ds)].amount)

\* |a - b| <= 0.01
Within(a, b) == LET d == Abs(Sub(a, b)) IN d # NaN /\ ~Gt(d, Eps)

PayersArePeople(es) == \A i \in 1..Len(es) : es[i].paid_by \in People

NonNegative(es) == \A i \in 1..Len(es) : es[i].amount # NaN /\ es[i].amount >= 0

Remove(es, i) == SubSeq(es, 1, i - 1) \o SubSeq(es, i + 1, Len(es))

\* a map entry read as zero when the key is missing
ReadZero(m, k) == IF k \in DOMAIN m THEN m[k] ELSE 0

(***************************************************************************)
(* Properties                                                              *)
(***************************************************************************)
\* what p has contributed to currency c once every debt of c is executed
Settled(es, ds, p, c) ==
  Sub(Add(SharedPaid(es, p, c),
          SumDebts(SelectSeq(ds, LAMBDA d : d.currency = c /\ d.from = p))),
      SumDebts(SelectSeq(ds, LAMBDA d : d.currency = c /\ d.to = p)))

\* C1: with the two participants, payers among them and non-negative amounts,
\* executing the debts of a currency leaves every participant's equal-split
\* contribution within 0.01 of the per-head share totalShared/2.
C1_DebtsSettle ==
  (Rendered /\ PayersArePeople(expenses) /\ NonNegative(expenses)) =>
    \A c \in Currencies : \A p \in People :
      Within(Settled(expenses, summary.debts, p, c), Share(expenses, c))

C1_Witness ==
  /\ Rendered /\ PayersArePeople(expenses) /\ NonNegative(expenses)
  /\ Len(summary.debts) = 2
  /\ summary.debts[1].currency # summary.debts[2].currency

\* what the creditors named in the debts of currency c paid above the share
RECURSIVE SumOverpaid(_, _, _)
SumOverpaid(es, c, ps) ==
  IF ps = {} THEN 0
  ELSE LET p == CHOOSE q \in ps : TRUE
       IN  Add(SumOverpaid(es, c, ps \ {p}), Sub(SharedPaid(es, p, c), Share(es, c)))

Creditors(ds, c) == {ds[i].to : i \in {j \in 1..Len(ds) : ds[j].currency = c}}

Conserved(es, ds) ==
  \A c \in Currencies :
    Within(SumDebts(DebtsIn(ds, c)), SumOverpaid(es, c, Creditors(ds, c)))

\* C2 as stated: for any expense list and each currency, the debts of the
\* currency sum (within 0.01) to what the creditors named in them over-paid
\* their per-head share.
C2_ConservationAnyList == Rendered => Conserved(expenses, summary.debts)

\* C2 amended: the same, for expense lists whose payers all belong to the
\* participant list.
C2_Conservation ==
  (Rendered /\ PayersArePeople(expenses)) => Conserved(expenses, summary.debts)

C2_Witness ==
  /\ Rendered /\ PayersArePeople(expenses)
  /\ \E i \in 1..Len(expenses) : expenses[i].amount < 0
  /\ Len(summary.debts) = 2

\* the keys a map must have: those k for which the list has an expense
HasKeys(m, ks) == DOMAIN m = ks

CurrenciesOf(es) == {es[i].currency : i \in 1..Len(es)}

PayersOf(es) == {es[i].paid_by : i \in 1..Len(es)}

PaidBy(es, p) == SelectSeq(es, LAMBDA e : e.paid_by = p)

\* C3: totals[c] is the sum of the amounts of all expenses of currency c and
\* perPerson[p][c] the sum of those paid by p, equal and solo alike; a
\* currency or payer without expense has no entry.
C3_TotalsAreSums ==
  Rendered =>
    /\ HasKeys(summary.totals, CurrenciesOf(expenses))
    /\ \A c \in CurrenciesOf(expenses) :
         summary.totals[c] = SumAmounts(InCurrency(expenses, c))
    /\ HasKeys(summary.perPerson, PayersOf(expenses))
    /\ \A p \in PayersOf(expenses) :
         /\ HasKeys(summary.perPerson[p], CurrenciesOf(PaidBy(expenses, p)))
         /\ \A c \in CurrenciesOf(PaidBy(expenses, p)) :
              summary.perPerson[p][c] = SumAmounts(PaidIn(expenses, p, c))

\* perPerson[p][c] read as zero when there is no entry
PersonTotal(perPerson, p, c) ==
  IF p \in DOMAIN perPerson THEN ReadZero(perPerson[p], c) ELSE 0

\* the totals and perPerson of `with` are those of `without` plus expense e
GrowsBy(with, without, e) ==
  /\ \A c \in Currencies :
       ReadZero(with.totals, c) =
         Add(ReadZero(without.totals, c), IF c = e.currency THEN e.amount ELSE 0)
  /\ \A p \in Payers : \A c \in Currencies :
       PersonTotal(with.perPerson, p, c) =
         Add(PersonTotal(without.perPerson, p, c),
             IF c = e.currency /\ p = e.paid_by THEN e.amount ELSE 0)

\* C4: a solo expense changes totals and perPerson by its amount and leaves
\* the debt sequence unchanged (the list with it against the list without);
\* a list of only solo expenses has no debts.
C4_SoloExclusion ==
  Rendered =>
    /\ \A i \in 1..Len(expenses) :
         expenses[i].split = "solo" =>
           LET without == Summary(Remove(expenses, i))
           IN  /\ summary.debts = without.debts
               /\ GrowsBy(summary, without, expenses[i])
    /\ (\A i \in 1..Len(expenses) : expenses[i].split = "solo") => summary.debts = <<>>

\* what a summary says about currency b
ViewOf(sm, b) ==
  [total |-> IF b \in DOMAIN sm.totals THEN <<sm.totals[b]>> ELSE <<>>,
   perPerson |-> [p \in Payers |->
                    IF p \in DOMAIN sm.perPerson /\ b \in DOMAIN sm.perPerson[p]
                    THEN <<sm.perPerson[p][b]>> ELSE <<>>],
   debts |-> DebtsIn(sm.debts, b)]

\* C5: for distinct currencies a and b, removing an expense of currency a
\* (equally: adding it) leaves totals[b], perPerson[p][b] and the debts of
\* currency b unchanged; and what the summary says about b is what it says
\* for the expenses of currency b alone, so it is the same for any two lists
\* that differ only by added, removed or changed expenses of other currencies.
C5_CurrencyIsolation ==
  Rendered =>
    \A b \in Currencies :
      /\ \A i \in 1..Len(expenses) :
           expenses[i].currency # b =>
             ViewOf(Summary(Remove(expenses, i)), b) = ViewOf(summary, b)
      /\ ViewOf(Summary(InCurrency(expenses, b)), b) = ViewOf(summary, b)

\* a debt in one currency next to an expense of another currency
C5_Witness ==
  /\ Rendered
  /\ Len(summary.debts) = 1
  /\ \E i \in 1..Len(expenses) :
       /\ expenses[i].currency # summary.debts[1].currency
       /\ expenses[i].split = "equal"
       /\ expenses[i].amount = NaN

DebtSet(sm) == {sm.debts[i] : i \in 1..Len(sm.debts)}

\* C6: every permutation of the expense list gives the same totals, the same
\* perPerson and the same set of debts.
C6_OrderIndependence ==
  Rendered =>
    \A f \in Permutations(1..Len(expenses)) :
      LET sm == Summary([i \in 1..Len(expenses) |-> expenses[f[i]]])
      IN  /\ sm.totals = summary.totals
          /\ sm.perPerson = summary.perPerson
          /\ DebtSet(sm) = DebtSet(summary)

\* the participant other than p
Other(p) == CHOOSE q \in People : q # p

\* the participants whose equal-split payments in c are below the share by more than 0.01
Below(es, c) == {p \in People : Gt(Sub(Share(es, c), SharedPaid(es, p, c)), Eps)}

\* C7: with payers among the two participants, a currency with equal-split
\* expenses has exactly the one debt {from: p, to: the other, amount:
\* perHead - paid[p]} when a participant p is below the share by more than
\* 0.01, and no debt otherwise.
C7_TwoPersonDebts ==
  (Rendered /\ PayersArePeople(expenses)) =>
    \A c \in Currencies :
      SharedIn(expenses, c) # <<>> =>
        /\ \A p \in Below(expenses, c) :
             DebtsIn(summary.debts, c) =
               << [from |-> p, to |-> Other(p),
                   amount |-> Sub(Share(expenses, c), SharedPaid(expenses, p, c)),
                   currency |-> c] >>
        /\ Below(expenses, c) = {} => DebtsIn(summary.debts, c) = <<>>

C7_Witness ==
  /\ Rendered /\ PayersArePeople(expenses)
  /\ \E c \in Currencies : Below(expenses, c) = {"zeynep"}
  /\ \E c \in Currencies : Below(expenses, c) = {"bartu"}
  /\ Len(summary.debts) = 2

\* C8: a participant is the debtor of a debt in currency c only if their
\* equal-split payments in c are below the per-head share of c by strictly
\* more than 0.01.
C8_DebtorsAreBelow ==
  Rendered =>
    \A i \in 1..Len(summary.debts) :
      LET d == summary.debts[i]
      IN  /\ d.from \in People
          /\ Gt(Sub(Share(expenses, d.currency),
                    SharedPaid(expenses, d.from, d.currency)), Eps)

\* one currency has a debtor, in the other a participant is below the share
\* by exactly 0.01 and owes nothing
C8_Witness ==
  /\ Rendered
  /\ Len(summary.debts) = 1
  /\ \E c \in Currencies : \E p \in People :
       /\ Sub(Share(expenses, c), SharedPaid(expenses, p, c)) = Eps
       /\ DebtsIn(summary.debts, c) = <<>>

\* C9: every emitted debt has an amount strictly greater than zero.
C9_AmountsPositive ==
  Rendered =>
    \A i \in 1..Len(summary.debts) : Gt(summary.debts[i].amount, 0)

C9_Witness ==
  /\ Rendered
  /\ summary.debts # <<>>
  /\ \E i \in 1..Len(expenses) : expenses[i].amount < 0
  /\ \E i \in 1..Len(expenses) : expenses[i].paid_by \notin People

Numbers == Int

\* a summary is a record of two maps of numbers and a sequence of debt tuples
WellFormed(sm) ==
  /\ DOMAIN sm = {"totals", "perPerson", "debts"}
  /\ DOMAIN sm.totals \subseteq Currencies
  /\ \A c \in DOMAIN sm.totals : sm.totals[c] \in Numbers
  /\ DOMAIN sm.perPerson \subseteq Payers
  /\ \A p \in DOMAIN sm.perPerson :
       /\ DOMAIN sm.perPerson[p] \subseteq Currencies
       /\ \A c \in DOMAIN sm.perPerson[p] : sm.perPerson[p][c] \in Numbers
  /\ DOMAIN sm.debts = 1..Len(sm.debts)
  /\ \A i \in 1..Len(sm.debts) :
       /\ DOMAIN sm.debts[i] = {"from", "to", "amount", "currency"}
       /\ sm.debts[i].amount \in Numbers
       /\ sm.debts[i].currency \in Currencies

\* C10: the empty list yields totals = {}, perPerson = {} and debts = [];
\* every list, however degenerate, yields a well-formed summary.
C10_EmptyAndDegenerate ==
  Rendered =>
    /\ WellFormed(summary)
    /\ expenses = <<>> =>
         /\ DOMAIN summary.totals = {}
         /\ DOMAIN summary.perPerson = {}
         /\ summary.debts = <<>>

C10_Witness == Rendered /\ expenses = <<>>

(***************************************************************************)
(* Properties of the computation for a participant list of any size        *)
(***************************************************************************)
Members == {participants[i] : i \in 1..Len(participants)}

\* the per-head share of currency c among the participants
ShareAmong(es, c) == Div(SumAmounts(SharedIn(es, c)), Len(participants))

\* p paid less than the share of c by more than 0.01
IsBelow(es, p, c) == Gt(Sub(ShareAmong(es, c), SharedPaid(es, p, c)), Eps)

\* the positions of the participants other than p who paid more than the share of c
CreditorsFor(es, p, c) ==
  {i \in 1..Len(participants) :
     /\ participants[i] # p
     /\ Gt(SharedPaid(es, participants[i], c), ShareAmong(es, c))}

DebtsFrom(ds, p, c) == SelectSeq(ds, LAMBDA d : d.currency = c /\ d.from = p)

\* C11: with an empty participant list the computation is rejected: it does
\* not complete with a summary.
C11_EmptyRejected == participants = <<>> => pc # "rendered"

\* C14: debtor and creditor of every debt are two different participants,
\* the creditor being the first participant in list order, other than the
\* debtor, who paid more than the per-head share; an under-payer for whom no
\* such participant exists has no debt.
C14_CreditorIsFirstOverpayer ==
  Rendered =>
    /\ \A i \in 1..Len(summary.debts) :
         LET d == summary.debts[i]
             cs == CreditorsFor(expenses, d.from, d.currency)
         IN  /\ d.from \in Members
             /\ d.to \in Members
             /\ d.from # d.to
             /\ cs # {}
             /\ \A j \in cs : d.to = participants[j] \/ \E k \in cs : k < j
             /\ \E j \in cs : d.to = participants[j]
    /\ \A p \in Members : \A c \in Currencies :
         (IsBelow(expenses, p, c) /\ CreditorsFor(expenses, p, c) = {}) =>
           DebtsFrom(summary.debts, p, c) = <<>>

\* three participants, two of whom paid more than the share: the debtor
\* has a choice of creditor
C14_Witness ==
  /\ Rendered
  /\ Len(participants) = 3
  /\ \E i \in 1..Len(summary.debts) :
       Cardinality(CreditorsFor(expenses, summary.debts[i].from,
                                summary.debts[i].currency)) = 2

\* position of the first equal-split expense of currency c in the list
FirstShared(es, c) ==
  CHOOSE i \in 1..Len(es) :
    /\ es[i].currency = c /\ es[i].split = "equal"
    /\ \A j \in 1..(i - 1) : ~(es[j].currency = c /\ es[j].split = "equal")

\* position of p in the participant list
Position(p) == CHOOSE i \in 1..Len(participants) : participants[i] = p

\* C15: the debts come currency by currency, the currencies in the order of
\* their first equal-split expense in the list, and within a currency the
\* debtors in participant-list order.
C15_DebtOrder ==
  Rendered =>
    \A i \in 1..Len(summary.debts) : \A j \in 1..Len(summary.debts) :
      i < j =>
        LET a == summary.debts[i]
            b == summary.debts[j]
        IN  IF a.currency = b.currency
            THEN Position(a.from) < Position(b.from)
            ELSE FirstShared(expenses, a.currency) < FirstShared(expenses, b.currency)

\* two debts of one currency, or two debts of two currencies of which the
\* alphabetically later one comes first
C15_Witness ==
  /\ Rendered
  /\ Len(summary.debts) = 2
  /\ \/ summary.debts[1].currency = summary.debts[2].currency
     \/ summary.debts[1].currency = "TRY" /\ summary.debts[2].currency = "EUR"

\* what p has contributed to currency c once every debt of c is executed
\* is within 0.01 of the share
IsSettled(es, ds, p, c) == Within(Settled(es, ds, p, c), ShareAmong(es, c))

\* C16: with three or more participants, payers among them and non-negative
\* amounts, executing the debts of a currency leaves every participant within
\* 0.01 of the per-head share, and no under-payer is left without a debt
\* while a participant still holds more than the share.
C16_SettlesBeyondTwo ==
  (/\ Rendered
   /\ Len(participants) >= 3
   /\ \A i \in 1..Len(expenses) : expenses[i].paid_by \in Members
   /\ NonNegative(expenses)) =>
    \A c \in Currencies :
      /\ \A p \in Members : IsSettled(expenses, summary.debts, p, c)
      /\ \A p \in Members :
           (IsBelow(expenses, p, c) /\ DebtsFrom(summary.debts, p, c) = <<>>) =>
             \A q \in Members :
               ~Gt(Settled(expenses, summary.debts, q, c), ShareAmong(expenses, c))


(***************************************************************************)
(* The budget screen: what its handlers keep true                          *)
(***************************************************************************)
\* the fields of an Expense (lib/types)
ExpenseFields ==
  {"id", "trip_id", "title", "amount", "currency", "category", "paid_by",
   "split", "added_by", "created_at"}

IsLocal(key) == key[1] = "local"

\* C13: in every reachable state of the screen the displayed summary is the
\* aggregation of the current local expense list, and what is sent to and
\* kept in the backing store has the fields of an expense only: no totals,
\* no per-person sums, no debts.
C13_SummaryFollowsList ==
  /\ summary = SummaryWith(expenses, participants)
  /\ \A i \in DOMAIN db : DOMAIN db[i] \subseteq ExpenseFields
  /\ \A a \in adding : DOMAIN a.payload \subseteq ExpenseFields \ {"id"}

\* a fetch has filled the list, a delete has taken an expense out of it and
\* a failed add has put a local expense in front of it
C13_Witness ==
  /\ ~loading
  /\ removed # {}
  /\ expenses # <<>>
  /\ IsLocal(expenses[1].id)
  /\ summary.debts # <<>>


\* t is full without the white space at its two ends
IsTrimOf(t, full) ==
  /\ t # <<>> => Head(t) \notin Spaces /\ t[Len(t)] \notin Spaces
  /\ \E i \in 0..Len(full) : \E j \in i..Len(full) :
       /\ t = SubSeq(full, i + 1, j)
       /\ \A k \in (1..i) \cup ((j + 1)..Len(full)) : full[k] \in Spaces

\* the text of a plain whole number, and the number
PlainAmounts == {<<<<"3">>, 300 * Eps>>}

\* e carries what was entered in the form f
Carries(e, f) ==
  /\ IsTrimOf(e.title, f.title)
  /\ \A p \in PlainAmounts : f.amount = p[1] => e.amount = p[2]
  /\ e.currency = f.currency
  /\ e.category = f.category
  /\ e.paid_by = f.paidBy
  /\ e.split = f.split

\* C17: when a handleAdd call that passed its guard ends, the sheet is closed
\* and the form is back at its defaults; if its insert failed (nothing was
\* stored), the list is the old list with exactly one new expense in front,
\* which carries the entered title (trimmed), amount, currency, category,
\* payer and split; if it succeeded, the list is not touched by the call.
C17_LocalFallback ==
  [][\A a \in adding :
       a \notin adding' =>
         /\ ~sheetOpen'
         /\ form' = DefaultForm
         /\ IF db' = db
            THEN /\ Len(expenses') = Len(expenses) + 1
                 /\ Tail(expenses') = expenses
                 /\ Carries(Head(expenses'), a.entered)
                 /\ Head(expenses').id \notin Ids(expenses)
            ELSE expenses' = expenses
    ]_vars

\* a failed add of a form in which every input was used, on a list that
\* was not empty
C17_Witness ==
  /\ Len(expenses) = 2
  /\ IsLocal(expenses[1].id)
  /\ expenses[1].title = <<"k">>
  /\ expenses[1].amount = 300 * Eps
  /\ expenses[1].currency = "EUR"
  /\ expenses[1].category = "other"
  /\ expenses[1].paid_by = "bartu"
  /\ expenses[1].split = "solo"
  /\ expenses[2] = SeedRow
  /\ ~sheetOpen
  /\ form = DefaultForm


\* a non-negative number, a payer of the participant list, a known split
IsValidExpense(e) ==
  /\ e.amount \notin {NaN, PosInf, NegInf}
  /\ e.amount >= 0
  /\ e.paid_by \in Members
  /\ e.split \in {"equal", "solo"}

\* C18: every expense handleAdd sends to the backend or puts into the local
\* list has a non-negative number as amount, a participant as paid_by and
\* 'equal' or 'solo' as split, whatever was typed into the amount field.
C18_AddedExpensesValid ==
  /\ \A a \in adding : IsValidExpense(a.payload)
  /\ \A i \in DOMAIN expenses :
       IsLocal(expenses[i].id) => IsValidExpense(expenses[i])

\* C19: an expense that handleDelete has filtered out of the local list, and
\* that the store has deleted, is not in the list again later: the response
\* of a fetchExpenses started before the delete does not bring it back.
C19_DeletedStaysDeleted ==
  \A key \in removed : key \notin Ids(db) => key \notin Ids(expenses)

\* C20: an expense the fallback of handleAdd has put into the local list
\* leaves the list only in the step in which a handleDelete call with its id
\* ends: no completion of fetchExpenses removes it.
C20_LocalExpenseStays ==
  [][\A key \in Ids(expenses) :
       (IsLocal(key) /\ key \notin Ids(expenses')) =>
         (key \in BagToSet(deleting) /\ deleting' = deleting (-) SetToBag({key}))
    ]_vars


(***************************************************************************)
(* The plan screen: groupByDate                                            *)
(***************************************************************************)
\* an item without a date
Dateless(item) == item.date = Null \/ item.date = NoText

\* the dates of DateValues in ascending order of their code units
Ascending == <<May02, May10, <<"k">>>>

RankOf(date) == CHOOSE r \in DOMAIN Ascending : Ascending[r] = date

\* the places <<section, index>> at which an item is shown
PlacesOf(item) ==
  {p \in {<<s, j>> : s \in DOMAIN sections, j \in 1..MaxItems + 1} :
     /\ p[2] \in DOMAIN sections[p[1]].data
     /\ sections[p[1]].data[p[2]] = item}

\* C25: groupByDate partitions its input.  Every item is in exactly one
\* section, once, and the sections hold nothing else; the items of a section
\* have one date, or none, and are in their input order; items of the same
\* date are in the same section; the dated sections are in ascending order
\* of the date string; the items without a date form one section, the last
\* one, which is there only if there is such an item.
C25_GroupsPartition ==
  Rendered =>
    /\ \A i \in DOMAIN planItems : Cardinality(PlacesOf(planItems[i])) = 1
    /\ \A s \in DOMAIN sections :
         /\ sections[s].data # <<>>
         /\ \A j \in DOMAIN sections[s].data :
              \E i \in DOMAIN planItems : sections[s].data[j] = planItems[i]
         /\ \A j, k \in DOMAIN sections[s].data :
              /\ j < k => sections[s].data[j].id < sections[s].data[k].id
              /\ Dateless(sections[s].data[j]) = Dateless(sections[s].data[k])
              /\ ~Dateless(sections[s].data[j]) =>
                   sections[s].data[j].date = sections[s].data[k].date
    /\ \A s, t \in DOMAIN sections :
         s < t =>
           /\ ~Dateless(sections[s].data[1])
           /\ ~Dateless(sections[t].data[1]) =>
                RankOf(sections[s].data[1].date) < RankOf(sections[t].data[1].date)
    /\ (\E i \in DOMAIN planItems : Dateless(planItems[i])) <=>
         (sections # <<>> /\ Dateless(sections[Len(sections)].data[1]))
    /\ \A s \in DOMAIN sections :
         Dateless(sections[s].data[1]) => sections[s].title = UndatedLabel

\* an item without a date first, then two dates in descending order
C25_Witness ==
  /\ Rendered
  /\ Len(planItems) = 3
  /\ planItems[1].date = Null
  /\ planItems[2].date = May10
  /\ planItems[3].date = May02
  /\ Len(sections) = 3


(***************************************************************************)
(* The screens of the application: what their handlers keep true           *)
(***************************************************************************)
\* the entries of a list whose id is not key, in their order
Kept(es, key) == SelectSeq(es, LAMBDA e : e.id # key)

\* C21: the step in which a handleDelete(id) call ends, whether its remote
\* delete took place or failed, leaves in the local list exactly the entries
\* whose id is not id, in their previous order; with an id that is not in
\* the list the list is unchanged, and a second removal of the same id
\* changes nothing.  The same holds for handleDelete of the plan screen.
C21_DeleteRemovesExactly ==
  [][/\ \A key \in BagToSet(deleting) :
          deleting' = deleting (-) SetToBag({key}) =>
            /\ expenses' = Kept(expenses, key)
            /\ key \notin Ids(expenses) => expenses' = expenses
            /\ Kept(expenses', key) = expenses'
     /\ \A c \in planCalls :
          (c.op = "delete" /\ c \notin planCalls') =>
            /\ planItems' = Kept(planItems, c.id)
            /\ c.id \notin Ids(planItems) => planItems' = planItems
            /\ Kept(planItems', c.id) = planItems'
    ]_vars

\* a delete has taken one of two expenses out of the list
C21_Witness ==
  /\ route = "budget"
  /\ removed # {}
  /\ Len(expenses) = 1
  /\ expenses[1].id \notin removed
  /\ Len(db) = 2


\* a text of spaces only, the empty text included
OnlySpaces(text) == \A i \in DOMAIN text : text[i] = " "

\* C22: a call of handleAdd with a title that is blank after trimming or
\* with an empty amount text does nothing: no insert is sent, no fetch is
\* started, and the store, the expense list, the sheet-open flag and every
\* form field are as before.  Likewise handleAdd of the plan screen with a
\* blank name.
C22_BlankAddIsNoOp ==
  [][/\ (calls' = calls + 1 /\ (OnlySpaces(form.title) \/ Len(form.amount) = 0)) =>
          UNCHANGED <<adding, fetches, db, expenses, summary, sheetOpen, form>>
     /\ (planCount' = planCount + 1 /\ OnlySpaces(planForm.name)) =>
          UNCHANGED <<planCalls, planFetches, itemsDb, planItems, planSheet, planForm>>
    ]_vars

\* handleAdd was called with a title of one space and an amount, and nothing
\* was sent or shown
C22_Witness ==
  /\ route = "budget"
  /\ calls = 1
  /\ sheetOpen
  /\ form.title = <<" ">>
  /\ form.amount = <<"3">>
  /\ adding = {}
  /\ loading
  /\ db = <<>>
  /\ expenses = <<>>


\* the mounted screen has stopped loading
Loaded ==
  \/ route = "budget" /\ ~loading
  \/ route = "plan" /\ ~planLoading
  \/ route = "home" /\ ~homeLoading

\* a fetch whose query failed is in this state when its continuation runs
Failed(f) == f.state \in {"error", "threw"}

\* C23: after a screen mounts, if every query sent is answered or throws,
\* loading becomes false at some time, whether the fetch succeeded or
\* failed; a loading flag that is false never becomes true again; and the
\* step that ends a failed fetch leaves the local list of its screen empty.
C23_LoadingEnds ==
  /\ <>Loaded
  /\ [][/\ ~loading => ~loading'
        /\ ~planLoading => ~planLoading'
        /\ ~homeLoading => ~homeLoading'
        /\ \A f \in fetches : (Failed(f) /\ f \notin fetches') => expenses' = <<>>
        /\ \A f \in planFetches : (Failed(f) /\ f \notin planFetches') => planItems' = <<>>
        /\ \A f \in homeFetches : (Failed(f) /\ f \notin homeFetches') => trips' = <<>>
       ]_vars

\* the expenses were shown, a later fetch failed and left the list empty
\* although the store holds expenses
C23_Witness ==
  /\ route = "budget"
  /\ ~loading
  /\ fetches = {}
  /\ calls = 1
  /\ expenses = <<>>
  /\ Len(db) = 2


\* the status the list shows for the item of that id
StatusOf(its, key) == (CHOOSE i \in {its[k] : k \in DOMAIN its} : i.id = key).status

\* a step of handleAdd, handleDelete or handleMarkVisited of the plan
\* screen, the fetchItems that handleAdd calls included (the fetch of the
\* mount effect has number 0)
LocalAction ==
  \/ planCalls' # planCalls
  \/ planCount' # planCount
  \/ \E f \in planFetches : f.n > 0 /\ f \notin planFetches'

\* C24: an item that the plan screen shows as 'visited' and that stays in
\* the list is still shown as 'visited' after every step of a local action
\* (add, delete, mark visited): none of them turns a visited item back into
\* a planned one.
C24_VisitedStaysVisited ==
  [][LocalAction =>
       \A key \in Ids(planItems) \cap Ids(planItems') :
         StatusOf(planItems, key) = "visited" => StatusOf(planItems', key) = "visited"
    ]_vars

\* the step in which a handleMarkVisited(id) call ends sets the status of
\* the items of that id and nothing else, and a second one changes nothing
MarkVisitedExact ==
  [][\A c \in planCalls :
       (c.op = "mark" /\ c \notin planCalls') =>
         /\ Len(planItems') = Len(planItems)
         /\ \A i \in DOMAIN planItems :
              planItems'[i] = IF planItems[i].id = c.id
                              THEN [planItems[i] EXCEPT !.status = "visited"]
                              ELSE planItems[i]
    ]_vars

=============================================================================
